---- MODULE Spec2Model ----
(***************************************************************************)
(* Model of src/openai_example.py: the search adapter search_duckduckgo   *)
(* and the orchestrator get_chat_completion_result_with_web_search.       *)
(*                                                                         *)
(* Python strings are sequences of characters.  Python values are tagged  *)
(* records [t, s, n, l]: t is the type ("none", "str", "int", "list"), s  *)
(* the characters of a str, n the value of an int, l the items of a list  *)
(* of str.  The two remote services (the model API and the DuckDuckGo     *)
(* provider) are outside the repository: every reply they can give,       *)
(* including raising, is a nondeterministic choice.                       *)
(***************************************************************************)
EXTENDS Integers, Sequences, FiniteSets, TLC

VARIABLES
    pc,              \* position in get_chat_completion_result_with_web_search
    query,           \* caller's argument query
    max_results,     \* caller's argument max_results
    region,          \* caller's argument region
    sites,           \* caller's argument sites
    messages,        \* the local list messages
    tool_call,       \* tool_call_response.output[0]
    tool_call_args,  \* json.loads(tool_call.arguments)
    tool_response,   \* what search_duckduckgo returned
    generate_text,   \* generate_response.output_text
    result,          \* the value returned to the caller
    error,           \* the exception that ended the run, "" if none
    model_calls,     \* every client.responses.create call, in order
    search_calls,    \* every search_duckduckgo call, in order
    provider_calls,  \* every ddgs.text call, in order
    trace            \* the order of the remote and adapter calls

vars == <<pc, query, max_results, region, sites, messages, tool_call,
          tool_call_args, tool_response, generate_text, result, error,
          model_calls, search_calls, provider_calls, trace>>

---------------------------------------------------------------------------
(* Python values *)

None == [t |-> "none", s |-> <<>>, n |-> 0, l |-> <<>>]
PyStr(chars) == [t |-> "str", s |-> chars, n |-> 0, l |-> <<>>]
PyInt(i) == [t |-> "int", s |-> <<>>, n |-> i, l |-> <<>>]
PyList(items) == [t |-> "list", s |-> <<>>, n |-> 0, l |-> items]

\* bool(v)
Truthy(v) ==
    CASE v.t = "none" -> FALSE
      [] v.t = "str" -> v.s # <<>>
      [] v.t = "int" -> v.n # 0
      [] v.t = "list" -> v.l # <<>>

Digit(d) ==
    CASE d = 0 -> "0" [] d = 1 -> "1" [] d = 2 -> "2" [] d = 3 -> "3"
      [] d = 4 -> "4" [] d = 5 -> "5" [] d = 6 -> "6" [] d = 7 -> "7"
      [] d = 8 -> "8" [] d = 9 -> "9"

RECURSIVE Digits(_)
Digits(i) == IF i < 10 THEN <<Digit(i)>> ELSE Digits(i \div 10) \o <<Digit(i % 10)>>

RECURSIVE JoinWith(_, _)
\* sep.join(parts)
JoinWith(sep, parts) ==
    IF parts = <<>> THEN <<>>
    ELSE IF Len(parts) = 1 THEN parts[1]
    ELSE parts[1] \o sep \o JoinWith(sep, Tail(parts))

\* format(v) inside an f-string
Format(v) ==
    CASE v.t = "str" -> v.s
      [] v.t = "int" -> IF v.n < 0 THEN <<"-">> \o Digits(0 - v.n) ELSE Digits(v.n)
      [] v.t = "none" -> <<"N", "o", "n", "e">>
      [] v.t = "list" ->
            <<"[">> \o JoinWith(<<",", " ">>,
                                [i \in 1..Len(v.l) |-> <<"'">> \o v.l[i] \o <<"'">>])
                    \o <<"]">>

---------------------------------------------------------------------------
(* search_duckduckgo *)

DefaultMaxResults == 5

SITE == <<"s", "i", "t", "e", ":">>
OR_SEP == <<" ", "O", "R", " ">>

\* a slip that drops the separating space
SingleSiteQueryNoSpace(q, s) == Format(q) \o SITE \o Format(s)

\* line 34: f"{query} site:{sites}"
SingleSiteQuery(q, s) == Format(q) \o <<" ">> \o SITE \o Format(s)

\* line 37: " OR ".join([f"site:{site}" for site in sites])
SiteConditions(s) == JoinWith(OR_SEP, [i \in 1..Len(s.l) |-> SITE \o s.l[i]])

\* a slip that leaves a single condition unparenthesised
MultiSiteQueryUnwrapped(q, s) ==
    IF Len(s.l) = 1 THEN Format(q) \o <<" ">> \o SiteConditions(s)
    ELSE Format(q) \o <<" ", "(">> \o SiteConditions(s) \o <<")">>

\* a slip that lists the conditions in reverse
MultiSiteQueryReversed(q, s) ==
    Format(q) \o <<" ", "(">>
              \o JoinWith(OR_SEP, [i \in 1..Len(s.l) |-> SITE \o s.l[Len(s.l) + 1 - i]])
              \o <<")">>

\* line 38: f"{query} ({site_conditions})"
MultiSiteQuery(q, s) == Format(q) \o <<" ", "(">> \o SiteConditions(s) \o <<")">>

\* lines 31-38: the query as rebound before the provider is called
EmittedQuery(q, s) ==
    IF Truthy(s)
    THEN IF s.t = "str" THEN PyStr(SingleSiteQuery(q, s))
         ELSE IF s.t = "list" THEN PyStr(MultiSiteQuery(q, s))
         ELSE q
    ELSE q

\* line 41: the arguments of ddgs.text
ProviderRequest(q, m, r, s) ==
    [query |-> EmittedQuery(q, s), max_results |-> m, region |-> r]

\* lines 41-43: results = list(ddgs.text(...)); return results
SearchReturn(provided) == provided

---------------------------------------------------------------------------
(* json.loads over a tokenised document *)

Tok(t) == [t |-> t, s |-> <<>>, n |-> 0]
TStr(chars) == [t |-> "str", s |-> chars, n |-> 0]
TInt(i) == [t |-> "int", s |-> <<>>, n |-> i]

IsScalarTok(tk) == tk.t \in {"str", "int"}
ScalarOf(tk) == IF tk.t = "str" THEN PyStr(tk.s) ELSE PyInt(tk.n)

\* a dict is the sequence of its items in insertion order
Keys(d) == {d[i].k : i \in 1..Len(d)}
Lookup(d, k) == d[CHOOSE i \in 1..Len(d) : d[i].k = k].v
DictSet(d, k, v) ==
    IF k \in Keys(d)
    THEN [i \in 1..Len(d) |-> IF d[i].k = k THEN [k |-> k, v |-> v] ELSE d[i]]
    ELSE Append(d, [k |-> k, v |-> v])

ParseFail == [ok |-> FALSE, d |-> <<>>]

RECURSIVE ParseMembers(_, _)
\* the members of an object: "key": value (, "key": value)*
ParseMembers(toks, d) ==
    IF Len(toks) < 3 THEN ParseFail
    ELSE IF ~(toks[1].t = "str" /\ toks[2].t = ":" /\ IsScalarTok(toks[3])) THEN ParseFail
    ELSE LET d2 == DictSet(d, toks[1].s, ScalarOf(toks[3]))
         IN  IF Len(toks) = 3 THEN [ok |-> TRUE, d |-> d2]
             ELSE IF toks[4].t = "," THEN ParseMembers(SubSeq(toks, 5, Len(toks)), d2)
             ELSE ParseFail

JsonError == [ok |-> FALSE, isdict |-> FALSE, d |-> <<>>, v |-> None]

\* a lenient parser that closes an unterminated object
json_loads_lenient(toks) ==
    LET closed == IF Len(toks) >= 1 /\ toks[1].t = "{" /\ toks[Len(toks)].t # "}"
                  THEN Append(toks, Tok("}")) ELSE toks
        m == IF Len(closed) > 2
             THEN ParseMembers(SubSeq(closed, 2, Len(closed) - 1), <<>>)
             ELSE [ok |-> Len(closed) = 2, d |-> <<>>]
    IN  IF Len(closed) >= 2 /\ closed[1].t = "{" /\ m.ok
        THEN [ok |-> TRUE, isdict |-> TRUE, d |-> m.d, v |-> None]
        ELSE JsonError

\* line 107: json.loads(tool_call.arguments); ok = FALSE is JSONDecodeError
json_loads(toks) ==
    IF Len(toks) = 1 /\ IsScalarTok(toks[1])
    THEN [ok |-> TRUE, isdict |-> FALSE, d |-> <<>>, v |-> ScalarOf(toks[1])]
    ELSE IF Len(toks) >= 2 /\ toks[1].t = "{" /\ toks[Len(toks)].t = "}"
    THEN IF Len(toks) = 2
         THEN [ok |-> TRUE, isdict |-> TRUE, d |-> <<>>, v |-> None]
         ELSE LET m == ParseMembers(SubSeq(toks, 2, Len(toks) - 1), <<>>)
              IN  IF m.ok THEN [ok |-> TRUE, isdict |-> TRUE, d |-> m.d, v |-> None]
                  ELSE JsonError
    ELSE JsonError

---------------------------------------------------------------------------
(* the keyword call of search_duckduckgo at line 109 *)

QUERY == <<"q", "u", "e", "r", "y">>
MAX_RESULTS == <<"m", "a", "x", "_", "r", "e", "s", "u", "l", "t", "s">>
REGION == <<"r", "e", "g", "i", "o", "n">>
SITES == <<"s", "i", "t", "e", "s">>

\* lines 14-16: the parameters of search_duckduckgo
Parameters == {QUERY, MAX_RESULTS, REGION, SITES}

BindFail == [ok |-> FALSE, query |-> None, max_results |-> None,
             region |-> None, sites |-> None]

\* a merge in which the payload's keys override the caller's keywords
BindArgumentsPayloadWins(args, r, s) ==
    IF ~args.isdict THEN BindFail
    ELSE IF ~(Keys(args.d) \subseteq Parameters) THEN BindFail
    ELSE IF QUERY \notin Keys(args.d) THEN BindFail
    ELSE [ok |-> TRUE,
          query |-> Lookup(args.d, QUERY),
          max_results |-> IF MAX_RESULTS \in Keys(args.d)
                          THEN Lookup(args.d, MAX_RESULTS)
                          ELSE PyInt(DefaultMaxResults),
          region |-> IF REGION \in Keys(args.d) THEN Lookup(args.d, REGION) ELSE r,
          sites |-> IF SITES \in Keys(args.d) THEN Lookup(args.d, SITES) ELSE s]

\* line 109: Python's binding of the keyword arguments; ok = FALSE is TypeError
BindArguments(args, r, s) ==
    IF ~args.isdict THEN BindFail                              \* not a mapping
    ELSE IF Keys(args.d) \cap {REGION, SITES} # {} THEN BindFail  \* multiple values
    ELSE IF ~(Keys(args.d) \subseteq Parameters) THEN BindFail    \* unexpected keyword
    ELSE IF QUERY \notin Keys(args.d) THEN BindFail               \* missing query
    ELSE [ok |-> TRUE,
          query |-> Lookup(args.d, QUERY),
          max_results |-> IF MAX_RESULTS \in Keys(args.d)
                          THEN Lookup(args.d, MAX_RESULTS)
                          ELSE PyInt(DefaultMaxResults),
          region |-> r,
          sites |-> s]

---------------------------------------------------------------------------
(* get_chat_completion_result_with_web_search *)

\* lines 64-86: the tool declaration set
tools(m) ==
    <<[type |-> "function",
       name |-> "search_duckduckgo",
       properties |-> {QUERY, MAX_RESULTS},
       max_results_default |-> m,
       required |-> {QUERY},
       additionalProperties |-> FALSE]>>

Item(kind, content, call_id, arguments, output) ==
    [kind |-> kind, content |-> content, call_id |-> call_id,
     arguments |-> arguments, output |-> output]

NoItem == Item("", None, "", <<>>, None)

SYSTEM_PROMPT == PyStr(<<"cite-the-links">>)

\* lines 88-94
InitialMessages(q) ==
    <<Item("system", SYSTEM_PROMPT, "", <<>>, None),
      Item("user", q, "", <<>>, None)>>

\* the function_call item a forced first response carries in output[0]
FunctionCall(call_id, arguments) ==
    Item("function_call", None, call_id, arguments, None)

\* str(r) of one result record
Repr(r) == <<"{", r, "}">>

\* line 116: str(tool_response)
StrOfResults(rs) ==
    PyStr(<<"[">> \o JoinWith(<<",", " ">>, [i \in 1..Len(rs) |-> Repr(rs[i])])
                  \o <<"]">>)

\* lines 112-118: the function_call_output message
ToolOutputMessage(tc, resp) ==
    Item("function_call_output", None, tc.call_id, <<>>, StrOfResults(resp))

\* the two appends in the wrong order
AppendToolMessagesSwapped(msgs, tc, resp) ==
    Append(Append(msgs, ToolOutputMessage(tc, resp)), tc)

\* lines 111-118: the two appends
AppendToolMessages(msgs, tc, resp) ==
    Append(Append(msgs, tc), ToolOutputMessage(tc, resp))

\* lines 96-104 and 120-124: the keyword arguments of client.responses.create
FirstRequest(msgs, m) ==
    [input |-> msgs, tools |-> tools(m), tool_choice |-> "search_duckduckgo"]
SecondRequest(msgs, m) ==
    [input |-> msgs, tools |-> tools(m), tool_choice |-> ""]

RECURSIVE RStrip(_)
RStrip(chars) ==
    IF chars # <<>> /\ chars[Len(chars)] = " "
    THEN RStrip(SubSeq(chars, 1, Len(chars) - 1)) ELSE chars

\* returning output_text.strip() instead of output_text
ReturnValueStripped(output_text) ==
    IF output_text.t = "str" THEN PyStr(RStrip(output_text.s)) ELSE output_text

\* line 128
ReturnValue(output_text) == output_text

---------------------------------------------------------------------------
(* inputs and replies *)

MaxProvided == 2

Queries == {PyStr(<<"X">>), PyStr(<<"Y", " ">>)}
CallerMaxResults == {PyInt(1), PyInt(5), PyInt(10)}
Regions == {PyStr(<<"k", "r">>), PyStr(<<"u", "s">>)}
DomainA == <<"a", ".", "k", "r">>
DomainB == <<"b">>
SitesInputs ==
    {None, PyStr(<<>>), PyStr(DomainA), PyList(<<>>), PyList(<<DomainA>>),
     PyList(<<DomainA, DomainB>>), PyList(<<DomainB, DomainA, DomainB>>)}

CallIds == {"call_1", "call_2"}

LB == Tok("{")
RB == Tok("}")
COLON == Tok(":")
COMMA == Tok(",")
Member(k, v) == <<TStr(k), COLON, v>>
Object1(k, v) == <<LB>> \o Member(k, v) \o <<RB>>
Object2(k1, v1, k2, v2) ==
    <<LB>> \o Member(k1, v1) \o <<COMMA>> \o Member(k2, v2) \o <<RB>>

\* {"query": "..."}
QueryOnly(chars) == Object1(QUERY, TStr(chars))

WellFormedArguments ==
    {QueryOnly(<<"X">>),
     QueryOnly(<<"Z">>),
     Object2(QUERY, TStr(<<"X">>), MAX_RESULTS, TInt(1)),
     Object2(MAX_RESULTS, TInt(2), QUERY, TStr(<<"Z">>)),
     Object2(QUERY, TStr(<<"X">>), QUERY, TStr(<<"Z">>)),
     Object2(QUERY, TStr(<<"X">>), REGION, TStr(<<"u", "s">>)),
     Object2(QUERY, TStr(<<"X">>), SITES, TStr(DomainB)),
     Object2(QUERY, TStr(<<"X">>), <<"f", "o", "o">>, TInt(1)),
     Object1(MAX_RESULTS, TInt(1)),
     <<LB, RB>>,
     <<TInt(5)>>}

MalformedArguments ==
    {<<>>,
     <<LB>> \o Member(QUERY, TStr(<<"X">>)),
     <<LB, TStr(QUERY), TStr(<<"X">>), RB>>,
     <<LB>> \o Member(QUERY, TStr(<<"X">>)) \o <<COMMA, RB>>}

ArgumentStrings == WellFormedArguments \cup MalformedArguments

ResultRecords == {"r1", "r2"}

RECURSIVE SeqsUpTo(_, _)
SeqsUpTo(S, n) ==
    IF n = 0 THEN {<<>>}
    ELSE LET shorter == SeqsUpTo(S, n - 1)
         IN  shorter \cup {Append(q, x) : q \in shorter, x \in S}

\* every sequence of records ddgs.text may hand back
ProviderReplies == SeqsUpTo(ResultRecords, MaxProvided)

Texts == {PyStr(<<"A">>), PyStr(<<"B", " ">>)}

---------------------------------------------------------------------------
(* the run *)

Init ==
    /\ pc = "first_call"
    /\ query \in Queries
    /\ max_results \in CallerMaxResults
    /\ region \in Regions
    /\ sites \in SitesInputs
    /\ messages = InitialMessages(query)
    /\ tool_call = NoItem
    /\ tool_call_args = JsonError
    /\ tool_response = <<>>
    /\ generate_text = None
    /\ result = None
    /\ error = ""
    /\ model_calls = <<>>
    /\ search_calls = <<>>
    /\ provider_calls = <<>>
    /\ trace = <<>>

Raise(e) == pc' = "error" /\ error' = e

\* lines 96-106: the forced first model call answers with a function call
FirstModelCall ==
    /\ pc = "first_call"
    /\ \E id \in CallIds, a \in ArgumentStrings :
          tool_call' = FunctionCall(id, a)
    /\ model_calls' = Append(model_calls, FirstRequest(messages, max_results))
    /\ trace' = Append(trace, "model")
    /\ pc' = "parse"
    /\ UNCHANGED <<query, max_results, region, sites, messages, tool_call_args,
                   tool_response, generate_text, result, error, search_calls,
                   provider_calls>>

\* lines 96-104: the first model call raises
FirstModelCallRaises ==
    /\ pc = "first_call"
    /\ model_calls' = Append(model_calls, FirstRequest(messages, max_results))
    /\ trace' = Append(trace, "model")
    /\ Raise("APIError")
    /\ UNCHANGED <<query, max_results, region, sites, messages, tool_call,
                   tool_call_args, tool_response, generate_text, result,
                   search_calls, provider_calls>>

\* line 107
ParseArguments ==
    /\ pc = "parse"
    /\ LET parsed == json_loads(tool_call.arguments)
       IN  IF parsed.ok
           THEN tool_call_args' = parsed /\ pc' = "search" /\ error' = error
           ELSE tool_call_args' = tool_call_args /\ Raise("JSONDecodeError")
    /\ UNCHANGED <<query, max_results, region, sites, messages, tool_call,
                   tool_response, generate_text, result, model_calls,
                   search_calls, provider_calls, trace>>

\* line 109: the keyword arguments do not bind
SearchCallTypeError ==
    /\ pc = "search"
    /\ ~BindArguments(tool_call_args, region, sites).ok
    /\ Raise("TypeError")
    /\ UNCHANGED <<query, max_results, region, sites, messages, tool_call,
                   tool_call_args, tool_response, generate_text, result,
                   model_calls, search_calls, provider_calls, trace>>

\* search_duckduckgo invoked a second time with the same arguments
SearchLoggedTwice(b) ==
    LET call == [query |-> b.query, max_results |-> b.max_results,
                 region |-> b.region, sites |-> b.sites]
        req == ProviderRequest(b.query, b.max_results, b.region, b.sites)
    IN  /\ search_calls' = search_calls \o <<call, call>>
        /\ provider_calls' = provider_calls \o <<req, req>>
        /\ trace' = trace \o <<"search", "search">>

\* line 109 with lines 31-41: the adapter is entered and ddgs.text is called
SearchLogged(b) ==
    /\ search_calls' = Append(search_calls,
          [query |-> b.query, max_results |-> b.max_results,
           region |-> b.region, sites |-> b.sites])
    /\ provider_calls' = Append(provider_calls,
          ProviderRequest(b.query, b.max_results, b.region, b.sites))
    /\ trace' = Append(trace, "search")

\* line 109 with lines 31-43: search_duckduckgo runs and returns
ExecuteSearch ==
    /\ pc = "search"
    /\ LET b == BindArguments(tool_call_args, region, sites)
       IN  /\ b.ok
           /\ SearchLogged(b)
    /\ \E provided \in ProviderReplies : tool_response' = SearchReturn(provided)
    /\ pc' = "append"
    /\ UNCHANGED <<query, max_results, region, sites, messages, tool_call,
                   tool_call_args, generate_text, result, error, model_calls>>

\* line 109 with lines 31-41: the provider raises inside search_duckduckgo
ExecuteSearchRaises ==
    /\ pc = "search"
    /\ LET b == BindArguments(tool_call_args, region, sites)
       IN  /\ b.ok
           /\ SearchLogged(b)
    /\ Raise("DuckDuckGoSearchException")
    /\ UNCHANGED <<query, max_results, region, sites, messages, tool_call,
                   tool_call_args, tool_response, generate_text, result,
                   model_calls>>

\* lines 111-118
AppendMessages ==
    /\ pc = "append"
    /\ messages' = AppendToolMessages(messages, tool_call, tool_response)
    /\ pc' = "second_call"
    /\ UNCHANGED <<query, max_results, region, sites, tool_call, tool_call_args,
                   tool_response, generate_text, result, error, model_calls,
                   search_calls, provider_calls, trace>>

\* lines 120-124
SecondModelCall ==
    /\ pc = "second_call"
    /\ model_calls' = Append(model_calls, SecondRequest(messages, max_results))
    /\ trace' = Append(trace, "model")
    /\ \E text \in Texts : generate_text' = text
    /\ pc' = "return"
    /\ UNCHANGED <<query, max_results, region, sites, messages, tool_call,
                   tool_call_args, tool_response, result, error, search_calls,
                   provider_calls>>

\* lines 120-124: the second model call raises
SecondModelCallRaises ==
    /\ pc = "second_call"
    /\ model_calls' = Append(model_calls, SecondRequest(messages, max_results))
    /\ trace' = Append(trace, "model")
    /\ Raise("APIError")
    /\ UNCHANGED <<query, max_results, region, sites, messages, tool_call,
                   tool_call_args, tool_response, generate_text, result,
                   search_calls, provider_calls>>

\* lines 126-128
Return ==
    /\ pc = "return"
    /\ result' = ReturnValue(generate_text)
    /\ pc' = "done"
    /\ UNCHANGED <<query, max_results, region, sites, messages, tool_call,
                   tool_call_args, tool_response, generate_text, error,
                   model_calls, search_calls, provider_calls, trace>>

Next ==
    \/ FirstModelCall
    \/ FirstModelCallRaises
    \/ ParseArguments
    \/ SearchCallTypeError
    \/ ExecuteSearch
    \/ ExecuteSearchRaises
    \/ AppendMessages
    \/ SecondModelCall
    \/ SecondModelCallRaises
    \/ Return

Spec == Init /\ [][Next]_vars

---------------------------------------------------------------------------
(* properties *)

IsPrefix(a, b) == Len(a) <= Len(b) /\ SubSeq(b, 1, Len(a)) = a
EndsWith(chars, suffix) ==
    /\ Len(suffix) <= Len(chars)
    /\ SubSeq(chars, Len(chars) - Len(suffix) + 1, Len(chars)) = suffix
Count(seq, x) == Cardinality({i \in DOMAIN seq : seq[i] = x})

SearchRan == search_calls # <<>>
SearchReturned == pc \in {"append", "second_call", "return", "done"}
SiteClause(d) == <<"s", "i", "t", "e", ":">> \o d

\* the first model call returned arguments {"query": "X"} for some X
QueryOnlyReturned ==
    /\ tool_call.kind = "function_call"
    /\ \E x \in {<<"X">>, <<"Z">>} : tool_call.arguments = QueryOnly(x)

\* C1: when the first model call returns arguments {"query": "X"}, the calls
\* made are a prefix of: model, search, model; the search call is made once,
\* with query "X"; a finished run made exactly these three calls.
C1_SearchOnceBetweenModelCalls ==
    QueryOnlyReturned =>
        /\ IsPrefix(trace, <<"model", "search", "model">>)
        /\ Len(model_calls) = Count(trace, "model")
        /\ Len(search_calls) = Count(trace, "search")
        /\ Len(provider_calls) = Len(search_calls)
        /\ \A i \in DOMAIN search_calls :
              search_calls[i].query = PyStr(tool_call.arguments[4].s)
        /\ pc \in {"return", "done"} => trace = <<"model", "search", "model">>

C1_Witness ==
    /\ QueryOnlyReturned
    /\ pc = "done"
    /\ search_calls[1].query = PyStr(<<"X">>)

\* C2: every executed search, and every provider request it makes, carries
\* the caller's region and the caller's sites, whatever the payload was.
C2_RegionAndSitesAreTheCallers ==
    /\ \A i \in DOMAIN search_calls :
          search_calls[i].region = region /\ search_calls[i].sites = sites
    /\ \A i \in DOMAIN provider_calls : provider_calls[i].region = region
    /\ (pc \notin {"first_call", "parse"} /\ tool_call.kind = "function_call"
        /\ tool_call_args.ok /\ Keys(tool_call_args.d) \cap {REGION, SITES} # {})
          => ~SearchRan

C2_Witness ==
    /\ SearchRan
    /\ search_calls[1].region = PyStr(<<"k", "r">>)
    /\ search_calls[1].sites = PyStr(DomainA)
    /\ search_calls[1].max_results = PyInt(1)

\* C3: with sites a single domain (a non-empty str), the query sent to the
\* provider is the original query followed by " site:<domain>" and nothing else.
C3_SingleSiteClause ==
    \A i \in DOMAIN search_calls :
        (search_calls[i].sites.t = "str" /\ search_calls[i].sites.s # <<>>) =>
            provider_calls[i].query =
                PyStr(search_calls[i].query.s \o <<" ">>
                        \o SiteClause(search_calls[i].sites.s))

C3_Witness ==
    /\ SearchRan
    /\ search_calls[1].sites = PyStr(DomainA)
    /\ provider_calls[1].query.s = <<"Z", " ">> \o SiteClause(DomainA)

RECURSIVE OrClause(_)
\* site:d1 OR site:d2 OR ... in list order
OrClause(l) ==
    IF Len(l) = 1 THEN SiteClause(l[1])
    ELSE OrClause(SubSeq(l, 1, Len(l) - 1)) \o <<" ", "O", "R", " ">>
            \o SiteClause(l[Len(l)])

\* C4: with sites a list of n >= 2 domains, the query sent to the provider is
\* the original query followed by " (" , the n site: sub-clauses in list order
\* joined by " OR ", and ")".
C4_ParenthesizedOrClause ==
    \A i \in DOMAIN search_calls :
        (search_calls[i].sites.t = "list" /\ Len(search_calls[i].sites.l) >= 2) =>
            provider_calls[i].query =
                PyStr(search_calls[i].query.s \o <<" ", "(">>
                        \o OrClause(search_calls[i].sites.l) \o <<")">>)

C4_Witness ==
    /\ SearchRan
    /\ search_calls[1].sites = PyList(<<DomainB, DomainA, DomainB>>)

OneElementList(v) == v.t = "list" /\ Len(v.l) = 1

\* C5 as stated: with sites a one-element list [d], the query sent to the
\* provider ends in site:d and the provider is asked for max_results results.
C5_EndsInSiteClause ==
    \A i \in DOMAIN search_calls :
        OneElementList(search_calls[i].sites) =>
            /\ EndsWith(provider_calls[i].query.s, SiteClause(search_calls[i].sites.l[1]))
            /\ provider_calls[i].max_results = search_calls[i].max_results

\* C5 amended: with sites a one-element list [d], the query sent to the
\* provider is the original query followed by " (site:d)", so it ends in
\* "site:d)", and the provider is asked for max_results results.
C5_EndsInParenthesizedSiteClause ==
    \A i \in DOMAIN search_calls :
        OneElementList(search_calls[i].sites) =>
            /\ provider_calls[i].query =
                  PyStr(search_calls[i].query.s \o <<" ", "(">>
                          \o SiteClause(search_calls[i].sites.l[1]) \o <<")">>)
            /\ EndsWith(provider_calls[i].query.s,
                        SiteClause(search_calls[i].sites.l[1]) \o <<")">>)
            /\ provider_calls[i].max_results = search_calls[i].max_results

C5_Witness ==
    /\ SearchRan
    /\ search_calls[1].sites = PyList(<<DomainA>>)
    /\ search_calls[1].max_results = PyInt(2)
    /\ provider_calls[1].max_results = PyInt(2)

\* C6 as stated: a search called with a positive max_results returns at most
\* max_results records, whatever the provider handed back.
C6_AtMostMaxResults ==
    (SearchReturned /\ search_calls[1].max_results.t = "int"
        /\ search_calls[1].max_results.n > 0)
      => Len(tool_response) <= search_calls[1].max_results.n

\* C7: a run that completes returns the text of the second model call
\* unchanged; a run that has not completed has returned nothing.
C7_ReturnsSecondOutputText ==
    /\ pc = "done" => result = generate_text /\ result \in Texts
    /\ pc # "done" => result = None

C7_Witness ==
    /\ pc = "done"
    /\ result = PyStr(<<"B", " ">>)
    /\ Len(tool_response) = MaxProvided

\* the message sequence the second model call must see
ExpectedSecondInput ==
    <<Item("system", SYSTEM_PROMPT, "", <<>>, None),
      Item("user", query, "", <<>>, None),
      tool_call,
      Item("function_call_output", None, tool_call.call_id, <<>>,
           StrOfResults(tool_response))>>

MessagesAtCalls ==
    /\ Len(model_calls) >= 1 =>
          model_calls[1].input = <<Item("system", SYSTEM_PROMPT, "", <<>>, None),
                                   Item("user", query, "", <<>>, None)>>
    /\ Len(model_calls) >= 2 =>
          /\ model_calls[2].input = ExpectedSecondInput
          /\ tool_call.kind = "function_call"
          /\ tool_call.call_id \in CallIds
    /\ Len(model_calls) <= 2

\* C8: messages only grows by appends; the first model call sees the system
\* instruction and the user message; the second sees these two, then the
\* tool-invocation request, then one tool-output message with the request's
\* call identifier and the stringified search result.
C8_MessageSequence ==
    [](MessagesAtCalls) /\ [][IsPrefix(messages, messages')]_vars

C8_Witness ==
    /\ Len(model_calls) = 2
    /\ Len(messages) = 4
    /\ messages[4].call_id = "call_2"
    /\ messages[4].output = PyStr(<<"[", "{", "r2", "}", ",", " ", "{", "r1", "}", "]">>)

\* C9: a malformed arguments payload ends the run at the parse: the error is
\* raised, no search is executed, only the first model call was made, the
\* messages are the initial two and nothing is returned.
C9_MalformedArgumentsAreFatal ==
    (tool_call.kind = "function_call" /\ tool_call.arguments \in MalformedArguments
        /\ pc # "parse")
      => /\ pc = "error"
         /\ error = "JSONDecodeError"
         /\ search_calls = <<>>
         /\ provider_calls = <<>>
         /\ Len(model_calls) = 1
         /\ Len(messages) = 2
         /\ result = None

C9_Witness ==
    /\ pc = "error"
    /\ error = "JSONDecodeError"
    /\ tool_call.arguments = <<LB>> \o Member(QUERY, TStr(<<"X">>))

\* C10 as stated: the declared default of max_results is the caller's
\* max_results, and a payload that omits max_results runs the search with
\* the caller's max_results.
C10_OmittedMaxResultsIsTheCallers ==
    /\ \A i \in DOMAIN model_calls :
          /\ model_calls[i].tools[1].required = {QUERY}
          /\ model_calls[i].tools[1].max_results_default = max_results
    /\ (SearchRan /\ MAX_RESULTS \notin Keys(tool_call_args.d))
          => search_calls[1].max_results = max_results

====
